---- MODULE Spec2Model ----
(***************************************************************************)
(* Model of owscheck.py: OwsServer (workspace index over the advertised    *)
(* layer names), CachedOwsServices (per-url endpoint cache with a layer    *)
(* existence check) and OwsChecker (the per-layer metadata scan).          *)
(*                                                                         *)
(* Layer names are sequences of characters, so that splitting a name on    *)
(* its first ':' and gluing "workspace:layer" back together are computed   *)
(* and not assumed.                                                        *)
(***************************************************************************)
EXTENDS Integers, Sequences, FiniteSets, TLC

VARIABLES
    contents,           \* OwsServer._ows.contents: the advertised layer names, in order
    metadataUrls,       \* per advertised name, the (format, url) pairs of its metadataUrls
    layersByWorkspace,  \* OwsServer.layersByWorkspace
    connectError,       \* the exception OwsServer(...) raised in OwsChecker.__init__
    pc,                 \* position of OwsChecker.__init__
    wsIdx,              \* position of the outer loop (workspace) of the scan
    layerIdx,           \* position of the inner loop (layer) of the scan
    fqLayerName,        \* the local fqLayerName of the scan
    mdUrls,             \* the pairs of the current layer still to be resolved
    inconsistencies,    \* OwsChecker._inconsistencies
    raised,             \* the exception that reached the caller (None if none)
    checker,            \* TRUE once the caller holds the constructed OwsChecker
    getMetadatasCalls,  \* the names getMetadatas was called with, in order
    resolverCalls,      \* the GeoMetadata(...) calls made, in order, with their outcome
    observed,           \* what the last getInconsistencies / getReport handed out
    servers,            \* CachedOwsServices._servers
    constructions,      \* per kind and url: OwsServer(...) calls started / completed
    calls,              \* number of checkWmsLayer / checkWfsLayer calls made so far
    lastCall,           \* the last completed check*Layer call and its outcome
    constructError,     \* what the last OwsServer(...) call of _checkLayer raised
    lookedUp,           \* TRUE when the last step of _checkLayer ran getLayer(name)
    thread              \* per concurrent caller: its position inside _checkLayer

vars == <<contents, metadataUrls, layersByWorkspace, connectError, pc, wsIdx, layerIdx,
          fqLayerName, mdUrls, inconsistencies, raised, checker,
          getMetadatasCalls, resolverCalls, observed, servers, constructions,
          calls, lastCall, constructError, lookedUp, thread>>

indexVars == <<contents, metadataUrls, layersByWorkspace, connectError>>
scanVars == <<pc, wsIdx, layerIdx, fqLayerName, mdUrls, inconsistencies, raised,
              checker, getMetadatasCalls, resolverCalls, observed>>
cacheVars == <<servers, constructions, calls, lastCall, constructError, lookedUp,
               thread>>

None == "None"

(***************************************************************************)
(* Bounds of the model.                                                    *)
(***************************************************************************)
MaxNameLen == 3     \* longest layer name given to the index builder alone
MaxIndexRaw == 2    \* longest list of names given to the index builder alone
MaxRaw == 3         \* longest list of layer names a checked service advertises
MaxCalls == 4       \* check*Layer calls made on one CachedOwsServices
MaxThreadCalls == 2 \* check*Layer calls made by the concurrent callers together

Chars == {"a", ":"}

RECURSIVE NamesOfLen(_)
NamesOfLen(n) ==
    IF n = 0 THEN {<<>>}
    ELSE {Append(s, c) : s \in NamesOfLen(n - 1), c \in Chars}

AllNames == UNION {NamesOfLen(n) : n \in 0..MaxNameLen}

RECURSIVE ListsOfLen(_, _)
ListsOfLen(S, n) ==
    IF n = 0 THEN {<<>>}
    ELSE {Append(l, x) : l \in ListsOfLen(S, n - 1), x \in S}

ListsUpTo(S, n) == UNION {ListsOfLen(S, k) : k \in 0..n}

(***************************************************************************)
(* str.split(":", maxsplit=1): the list of parts, one part when the string *)
(* holds no ':' and otherwise the text before and the text after the       *)
(* first ':'. The string is scanned from the left.                         *)
(***************************************************************************)
RECURSIVE SplitFrom(_, _)
SplitFrom(s, i) ==
    IF i > Len(s) THEN <<s>>
    ELSE IF s[i] = ":" THEN <<SubSeq(s, 1, i - 1), SubSeq(s, i + 1, Len(s))>>
    ELSE SplitFrom(s, i + 1)

\* The split at the last ':' instead of the first.
RECURSIVE SplitBack(_, _)
SplitBack(s, i) ==
    IF i < 1 THEN <<s>>
    ELSE IF s[i] = ":" THEN <<SubSeq(s, 1, i - 1), SubSeq(s, i + 1, Len(s))>>
    ELSE SplitBack(s, i - 1)

SplitAtLastColon(s) == SplitBack(s, Len(s))

Split(s) == SplitFrom(s, 1)

(***************************************************************************)
(* A Python dict, which keeps its keys in insertion order: a sequence of   *)
(* [workspace, layers] items with distinct workspaces.                     *)
(***************************************************************************)
DictHas(d, k) == \E i \in 1..Len(d) : d[i].workspace = k

DictPos(d, k) == CHOOSE i \in 1..Len(d) : d[i].workspace = k

\* A list per workspace that takes a layer once only.
AddLayerOnce(d, workspace, layer) ==
    IF DictHas(d, workspace)
    THEN IF \E j \in 1..Len(d[DictPos(d, workspace)].layers) :
               d[DictPos(d, workspace)].layers[j] = layer
         THEN d
         ELSE [d EXCEPT ![DictPos(d, workspace)].layers = Append(@, layer)]
    ELSE Append(d, [workspace |-> workspace, layers |-> <<layer>>])

\* A dict that puts a new key in front of the older ones.
AddLayerFront(d, workspace, layer) ==
    IF DictHas(d, workspace)
    THEN [d EXCEPT ![DictPos(d, workspace)].layers = Append(@, layer)]
    ELSE <<[workspace |-> workspace, layers |-> <<layer>>]>> \o d

\* self.layersByWorkspace[workspace].append(layer), or on KeyError
\* self.layersByWorkspace[workspace] = [layer]
AddLayer(d, workspace, layer) ==
    IF DictHas(d, workspace)
    THEN [d EXCEPT ![DictPos(d, workspace)].layers = Append(@, layer)]
    ELSE Append(d, [workspace |-> workspace, layers |-> <<layer>>])

\* One iteration of the loop of _populateLayers: the unpacking of the split
\* into (workspace, layer) raises ValueError unless there are two parts, and
\* the name is then skipped.
PopulateOne(d, content) ==
    LET parts == Split(content)
    IN  IF Len(parts) = 2 THEN AddLayer(d, parts[1], parts[2]) ELSE d

RECURSIVE PopulateFrom(_, _, _)
PopulateFrom(d, names, i) ==
    IF i > Len(names) THEN d
    ELSE PopulateFrom(PopulateOne(d, names[i]), names, i + 1)

PopulateLayers(names) == PopulateFrom(<<>>, names, 1)

\* The two parts joined without the ':' between them.
FqNameNoColon(workspace, layer) == workspace \o layer

\* "%s:%s" % (workspace, layer)
FqName(workspace, layer) == workspace \o <<":">> \o layer

\* sum(len(v) for k, v in layersByWorkspace.items())
RECURSIVE SumLens(_, _)
SumLens(d, i) == IF i > Len(d) THEN 0 ELSE Len(d[i].layers) + SumLens(d, i + 1)

\* The number of workspaces instead of the number of layers.
CountWorkspaces(d) == Len(d)

TotalLayers(d) == SumLens(d, 1)

(***************************************************************************)
(* Exceptions. An exception is a record with its class in "kind".          *)
(***************************************************************************)
NoExc == [kind |-> "None"]

Messages == {"m1", "m2"}

\* The except clauses with one more class, for connection errors.
ClassifiedWithConnectionError ==
    {"HTTPError", "ServiceException", "AttributeError", "ConnectionError"}

\* What OwsServer(...) can raise: the three classes _checkLayer names, an
\* Exception of another class (requests' ConnectionError, or a KeyError of the
\* parsing of the capabilities) and a BaseException that is no Exception
\* (KeyboardInterrupt).
ClassifiedFailures == {"HTTPError", "ServiceException", "AttributeError"}

ConstructFailures ==
    ClassifiedFailures \cup {"ConnectionError", "KeyError", "KeyboardInterrupt"}

ConstructErrors == [kind : ConstructFailures, msg : Messages]

LayerNotFoundInconsistency(layer_name, layer_url, md_uuid, msg) ==
    [kind |-> "LayerNotFound", layer_name |-> layer_name, layer_url |-> layer_url,
     md_uuid |-> md_uuid, msg |-> msg]

UnparseableGetCapabilitiesInconsistency(serviceUrl, msg) ==
    [kind |-> "UnparseableCapabilities", service_url |-> serviceUrl, msg |-> msg]

MetadataMissingInconsistency(layerName) ==
    [kind |-> "MetadataMissing", layerName |-> layerName]

(***************************************************************************)
(* OwsServer                                                               *)
(***************************************************************************)
\* OwsServer.__init__ on a capabilities document that was fetched and parsed:
\* the client object and the index _populateLayers builds from it.
OwsServer(names, metadata) ==
    [contents |-> names, metadataUrls |-> metadata,
     layersByWorkspace |-> PopulateLayers(names)]

InContents(names, name) == \E i \in 1..Len(names) : names[i] = name

\* A lookup that never raises.
GetLayerNeverRaises(server, name) == FALSE

\* OwsServer.getLayer: self._ows[name] raises KeyError for a name the
\* capabilities do not hold.
GetLayerRaises(server, name) == ~InContents(server.contents, name)

(***************************************************************************)
(* CachedOwsServices                                                       *)
(***************************************************************************)
Urls == {"u1", "u2"}
Kinds == {"wms", "wfs"}

\* The layer names the callers ask for, and the capabilities a server may
\* answer with.
AskedNames == {<<"a", ":", "a">>, <<"a">>}
Catalogs == {<<>>, <<<<"a", ":", "a">>>>, <<<<"a", ":", "a">>, <<"a">>>>}

Threads == {"t1", "t2"}

\* One bucket for both kinds.
BucketAlwaysWms(is_wms) == "wms"

\* self._servers["wms"] if is_wms else self._servers["wfs"]
BucketOf(is_wms) == IF is_wms THEN "wms" ELSE "wfs"

ThreadIdle == [pc |-> "idle", url |-> "u1", name |-> <<>>, is_wms |-> TRUE,
               fetched |-> FALSE]

\* CachedOwsServices.__init__
CacheInit ==
    /\ servers = [k \in Kinds |-> <<>>]
    /\ constructions = [k \in Kinds |-> [u \in Urls |-> [started |-> 0, completed |-> 0]]]
    /\ calls = 0
    /\ lastCall = [op |-> "None"]
    /\ constructError = NoExc
    /\ lookedUp = FALSE
    /\ thread = [t \in Threads |-> ThreadIdle]

\* A membership test that never finds the url.
AlwaysMissing(cache, url) == TRUE

\* url not in servers_cache.keys()
Missing(cache, url) == url \notin DOMAIN cache

\* A store that evicts what the bucket held.
StoreAlone(cache, url, server) == [u \in {url} |-> server]

\* servers_cache[url] = <the new OwsServer>
Store(cache, url, server) == [u \in (DOMAIN cache) \cup {url} |->
                                 IF u = url THEN server ELSE cache[u]]

\* The except clauses without the class tag in front of the message.
ConstructionRaisesUntagged(err, url, name) ==
    IF err.kind \in ClassifiedFailures
    THEN LayerNotFoundInconsistency(name, url, "default", <<err.msg>>)
    ELSE err

\* The except clauses of the construction: the three classes are turned into
\* LayerNotFoundInconsistency, anything else leaves _checkLayer as it is.
ConstructionRaises(err, url, name) ==
    IF err.kind \in ClassifiedFailures
    THEN LayerNotFoundInconsistency(name, url, "default", <<err.kind, ": ", err.msg>>)
    ELSE err

\* The lookup with its outcome inverted: it raises for a layer that exists.
LookupRaisesInverted(cache, url, name) ==
    IF GetLayerRaises(cache[url], name)
    THEN NoExc
    ELSE LayerNotFoundInconsistency(name, url, None, "Layer not found on GS")

\* servers_cache[url].getLayer(name), and the except KeyError around it
LookupRaises(cache, url, name) ==
    IF GetLayerRaises(cache[url], name)
    THEN LayerNotFoundInconsistency(name, url, None, "Layer not found on GS")
    ELSE NoExc

Started(c, kind, url) == [c EXCEPT ![kind][url].started = @ + 1]
Completed(c, kind, url) == [c EXCEPT ![kind][url].completed = @ + 1]

CallRecord(url, name, is_wms, exc, fetched) ==
    [op |-> IF is_wms THEN "checkWmsLayer" ELSE "checkWfsLayer",
     url |-> url, name |-> name, raised |-> exc, returned |-> None,
     fetched |-> fetched]

\* _checkLayer when the url is cached: only the lookup
CheckCached(url, name, is_wms) ==
    LET kind == BucketOf(is_wms)
    IN  /\ ~Missing(servers[kind], url)
        /\ lastCall' = CallRecord(url, name, is_wms,
                                  LookupRaises(servers[kind], url, name), FALSE)
        /\ constructError' = NoExc
        /\ lookedUp' = TRUE
        /\ UNCHANGED <<servers, constructions>>

\* _checkLayer when the url is not cached and OwsServer(...) raises err
CheckFailing(url, name, is_wms, err) ==
    LET kind == BucketOf(is_wms)
    IN  /\ Missing(servers[kind], url)
        /\ constructions' = Started(constructions, kind, url)
        /\ lastCall' = CallRecord(url, name, is_wms,
                                  ConstructionRaises(err, url, name), TRUE)
        /\ constructError' = err
        /\ lookedUp' = FALSE
        /\ UNCHANGED servers

\* _checkLayer when the url is not cached and OwsServer(...) returns a server
\* with the capabilities cat: it is stored, then the lookup
CheckFetching(url, name, is_wms, cat) ==
    LET kind == BucketOf(is_wms)
        stored == Store(servers[kind], url, OwsServer(cat, <<>>))
    IN  /\ Missing(servers[kind], url)
        /\ servers' = [servers EXCEPT ![kind] = stored]
        /\ constructions' = Completed(Started(constructions, kind, url), kind, url)
        /\ lastCall' = CallRecord(url, name, is_wms,
                                  LookupRaises(stored, url, name), TRUE)
        /\ constructError' = NoExc
        /\ lookedUp' = TRUE

\* CachedOwsServices._checkLayer, called by one caller at a time
CheckLayer(url, name, is_wms) ==
    /\ pc = "cache"
    /\ calls < MaxCalls
    /\ calls' = calls + 1
    /\ \/ CheckCached(url, name, is_wms)
       \/ \E err \in ConstructErrors : CheckFailing(url, name, is_wms, err)
       \/ \E cat \in Catalogs : CheckFetching(url, name, is_wms, cat)
    /\ UNCHANGED <<thread>>
    /\ UNCHANGED indexVars
    /\ UNCHANGED scanVars

\* CachedOwsServices.checkWmsLayer
CheckWmsLayer == \E url \in Urls, name \in AskedNames : CheckLayer(url, name, TRUE)

\* CachedOwsServices.checkWfsLayer
CheckWfsLayer == \E url \in Urls, name \in AskedNames : CheckLayer(url, name, FALSE)

(***************************************************************************)
(* OwsChecker                                                              *)
(***************************************************************************)
ServiceUrl == "u1"

\* The names a checked service may advertise: one without workspace, two of
\* the workspace "a" (one with a second ':'), one of the empty workspace.
ScanNames == {<<"a">>, <<"a", ":">>, <<"a", ":", ":">>, <<":", "a">>}

\* Metadata references. The url names what is found there: a valid document,
\* an invalid one, or nothing because the host is down.
POk == [format |-> "f1", url |-> "valid"]
PBad == [format |-> "f1", url |-> "invalid"]
PBad2 == [format |-> "f2", url |-> "invalid"]
PDown == [format |-> "f1", url |-> "down"]

Pairs == {POk, PBad, PBad2, PDown}

\* The metadataUrls a layer may declare (a list: a pair can be declared twice).
MetadataLists == {<<>>, <<PBad, POk, PBad>>, <<PBad, PBad2>>, <<PDown, PBad>>}

Unset == <<"unset">>

\* GeoMetadata(mdUrl, mdFormat, creds=creds): how a resolution ends. The
\* document is read; or it is invalid, and MetadataInvalidInconsistency is
\* raised by code that does not know the layer; or the resolution fails
\* otherwise.
GeoMetadata(mdUrl, mdFormat) ==
    IF mdUrl = "valid" THEN [kind |-> "ok"]
    ELSE IF mdUrl = "invalid"
    THEN [kind |-> "MetadataInvalid", layerName |-> Unset, msg |-> <<mdFormat, mdUrl>>]
    ELSE [kind |-> "ConnectionError", msg |-> "m1"]

RangeOf(seq) == {seq[i] : i \in 1..Len(seq)}

\* OwsServer.getMetadatas: set([(i['format'], i['url']) for i in l.metadataUrls])
GetMetadatas(server, layerName) == RangeOf(server.metadataUrls[layerName])

TheService == [contents |-> contents, metadataUrls |-> metadataUrls,
               layersByWorkspace |-> layersByWorkspace]

\* The capabilities a checked service may answer with: a list of names and,
\* for each name, its metadataUrls.
Qualified(names) == {n \in RangeOf(names) : \E i \in 1..Len(n) : n[i] = ":"}

MetadataOf(names) ==
    {[n \in RangeOf(names) |-> IF n \in Qualified(names) THEN f[n] ELSE <<>>] :
        f \in [Qualified(names) -> MetadataLists]}

\* The message of the caught exception is dropped.
ConnectRaisesNoMessage(serviceUrl, err) ==
    UnparseableGetCapabilitiesInconsistency(serviceUrl, "")

\* Lines 104-107 when OwsServer(...) raises: every exception is caught and
\* UnparseableGetCapabilitiesInconsistency(serviceUrl, str(e)) is raised.
ConnectRaises(serviceUrl, err) == UnparseableGetCapabilitiesInconsistency(serviceUrl, err.msg)

ConnectFail(err) ==
    /\ pc = "start"
    /\ connectError' = err
    /\ raised' = ConnectRaises(ServiceUrl, err)
    /\ pc' = "raised"
    /\ UNCHANGED <<wsIdx, layerIdx, fqLayerName, mdUrls, inconsistencies, checker,
                   getMetadatasCalls, resolverCalls, observed>>
    /\ UNCHANGED <<contents, metadataUrls, layersByWorkspace>>
    /\ UNCHANGED cacheVars

\* Lines 104-105 when OwsServer(...) returns, and the start of the loops
Connect(names, metadata) ==
    LET server == OwsServer(names, metadata)
    IN  /\ pc = "start"
        /\ contents' = server.contents
        /\ metadataUrls' = server.metadataUrls
        /\ layersByWorkspace' = server.layersByWorkspace
        /\ wsIdx' = 1
        /\ layerIdx' = 1
        /\ pc' = "scan"
        /\ UNCHANGED <<fqLayerName, mdUrls, inconsistencies, raised, checker,
                       getMetadatasCalls, resolverCalls, observed, connectError>>
        /\ UNCHANGED cacheVars

AtWorkspace == pc = "scan" /\ wsIdx <= Len(layersByWorkspace)

AtLayer == AtWorkspace /\ layerIdx <= Len(layersByWorkspace[wsIdx].layers)

\* Line 109: the list of a workspace is exhausted, the outer loop goes on
NextWorkspace ==
    /\ AtWorkspace
    /\ ~AtLayer
    /\ wsIdx' = wsIdx + 1
    /\ layerIdx' = 1
    /\ UNCHANGED <<pc, fqLayerName, mdUrls, inconsistencies, raised, checker,
                   getMetadatasCalls, resolverCalls, observed>>
    /\ UNCHANGED indexVars
    /\ UNCHANGED cacheVars

\* The new entry is put in front of the list.
RecordFront(list, e) == <<e>> \o list

\* self._inconsistencies.append(e)
Record(list, e) == Append(list, e)

\* The entry gets the bare layer name, without its workspace.
MissingEntryBareName(fq) == MetadataMissingInconsistency(Split(fq)[2])

\* Lines 113-115: the entry recorded for a layer without metadata
MissingEntry(fq) == MetadataMissingInconsistency(fq)

\* Lines 110-115: the next layer of the current workspace
ScanLayer ==
    /\ AtLayer
    /\ LET fq == FqName(layersByWorkspace[wsIdx].workspace,
                        layersByWorkspace[wsIdx].layers[layerIdx])
       IN  /\ fqLayerName' = fq
           /\ getMetadatasCalls' = Append(getMetadatasCalls, fq)
           /\ IF GetLayerRaises(TheService, fq)
              THEN /\ raised' = [kind |-> "KeyError", msg |-> fq]
                   /\ pc' = "raised"
                   /\ UNCHANGED <<layerIdx, mdUrls, inconsistencies>>
              ELSE IF GetMetadatas(TheService, fq) = {}
              THEN /\ inconsistencies' = Record(inconsistencies, MissingEntry(fq))
                   /\ layerIdx' = layerIdx + 1
                   /\ UNCHANGED <<pc, mdUrls, raised>>
              ELSE /\ mdUrls' = GetMetadatas(TheService, fq)
                   /\ pc' = "resolve"
                   /\ UNCHANGED <<layerIdx, inconsistencies, raised>>
    /\ UNCHANGED <<wsIdx, checker, resolverCalls, observed>>
    /\ UNCHANGED indexVars
    /\ UNCHANGED cacheVars

\* The caught exception gets the bare layer name, without its workspace.
InvalidEntryBareName(e, fq) == [e EXCEPT !.layerName = Split(fq)[2]]

\* The caught exception is recorded as the resolver raised it.
InvalidEntryUnnamed(e, fq) == e

\* Lines 119-121: the caught exception gets the layer's name and is recorded
InvalidEntry(e, fq) == [e EXCEPT !.layerName = fq]

\* Every exception of the resolver is swallowed.
UncaughtNever(outcome) == FALSE

\* Lines 117-119: the try around GeoMetadata(...) has one except clause, for
\* MetadataInvalidInconsistency; any other exception leaves __init__.
Uncaught(outcome) == outcome.kind \notin {"ok", "MetadataInvalid"}

\* Lines 116-121: one pair of the current layer, in the set's order
Resolve(md) ==
    /\ pc = "resolve"
    /\ md \in mdUrls
    /\ resolverCalls' = Append(resolverCalls, [layer |-> fqLayerName, md |-> md])
    /\ LET outcome == GeoMetadata(md.url, md.format) IN
       IF Uncaught(outcome)
       THEN /\ raised' = outcome
            /\ pc' = "raised"
            /\ UNCHANGED <<layerIdx, mdUrls, inconsistencies>>
       ELSE /\ inconsistencies' =
                 IF outcome.kind = "MetadataInvalid"
                 THEN Record(inconsistencies, InvalidEntry(outcome, fqLayerName))
                 ELSE inconsistencies
            /\ mdUrls' = mdUrls \ {md}
            /\ pc' = IF mdUrls' = {} THEN "scan" ELSE "resolve"
            /\ layerIdx' = IF mdUrls' = {} THEN layerIdx + 1 ELSE layerIdx
            /\ UNCHANGED raised
    /\ UNCHANGED <<wsIdx, fqLayerName, checker, getMetadatasCalls, observed>>
    /\ UNCHANGED indexVars
    /\ UNCHANGED cacheVars

\* Line 122: the loops are over, __init__ returns and the caller holds the
\* checker
Finish ==
    /\ pc = "scan"
    /\ ~AtWorkspace
    /\ pc' = "done"
    /\ checker' = TRUE
    /\ UNCHANGED <<wsIdx, layerIdx, fqLayerName, mdUrls, inconsistencies, raised,
                   getMetadatasCalls, resolverCalls, observed>>
    /\ UNCHANGED indexVars
    /\ UNCHANGED cacheVars

\* OwsChecker.getReport: two counts are logged, nothing is returned
Report(server, list) ==
    [op |-> "getReport", totalLayers |-> TotalLayers(server.layersByWorkspace),
     inconsistencyCount |-> Len(list), returned |-> None]

GetReport ==
    /\ checker
    /\ observed' = Report(TheService, inconsistencies)
    /\ UNCHANGED <<pc, wsIdx, layerIdx, fqLayerName, mdUrls, inconsistencies, raised,
                   checker, getMetadatasCalls, resolverCalls>>
    /\ UNCHANGED indexVars
    /\ UNCHANGED cacheVars

\* OwsChecker.getInconsistencies
Inconsistencies(list) == [op |-> "getInconsistencies", list |-> list]

GetInconsistencies ==
    /\ checker
    /\ observed' = Inconsistencies(inconsistencies)
    /\ UNCHANGED <<pc, wsIdx, layerIdx, fqLayerName, mdUrls, inconsistencies, raised,
                   checker, getMetadatasCalls, resolverCalls>>
    /\ UNCHANGED indexVars
    /\ UNCHANGED cacheVars

(***************************************************************************)
(* The index builder alone: an OwsServer whose client advertises any list  *)
(* of names, and _populateLayers run on it.                                *)
(***************************************************************************)
ScanIdle ==
    /\ wsIdx = 0 /\ layerIdx = 0 /\ fqLayerName = <<>>
    /\ mdUrls = {} /\ inconsistencies = <<>> /\ raised = NoExc
    /\ checker = FALSE /\ getMetadatasCalls = <<>> /\ resolverCalls = <<>>
    /\ observed = [op |-> "None"]

NoServer ==
    /\ contents = <<>> /\ metadataUrls = <<>> /\ layersByWorkspace = <<>>
    /\ connectError = NoExc

InitIndex ==
    /\ pc = "server_new"
    /\ contents \in ListsUpTo(AllNames, MaxIndexRaw)
    /\ metadataUrls = <<>>
    /\ layersByWorkspace = <<>>
    /\ connectError = NoExc
    /\ ScanIdle
    /\ CacheInit

\* OwsServer._populateLayers
DoPopulateLayers ==
    /\ pc = "server_new"
    /\ pc' = "server_ready"
    /\ layersByWorkspace' = PopulateLayers(contents)
    /\ UNCHANGED <<contents, metadataUrls, connectError>>
    /\ UNCHANGED <<wsIdx, layerIdx, fqLayerName, mdUrls, inconsistencies, raised,
                   checker, getMetadatasCalls, resolverCalls, observed>>
    /\ UNCHANGED cacheVars

NextIndex == DoPopulateLayers

SpecIndex == InitIndex /\ [][NextIndex]_vars

(***************************************************************************)
(* One CachedOwsServices used by one caller at a time.                     *)
(***************************************************************************)
InitCache ==
    /\ pc = "cache"
    /\ NoServer
    /\ ScanIdle
    /\ CacheInit

NextCache == CheckWmsLayer \/ CheckWfsLayer

SpecCache == InitCache /\ [][NextCache]_vars

(***************************************************************************)
(* One CachedOwsServices shared by concurrent callers. _checkLayer takes   *)
(* no lock: a caller can be suspended after the membership test (line 80), *)
(* while OwsServer(...) waits for the network (line 82), and before the    *)
(* lookup (line 90).                                                       *)
(***************************************************************************)
\* Lines 79-80: the caller t enters _checkLayer and tests the bucket.
TBegin(t, url, name, is_wms) ==
    /\ pc = "threads"
    /\ thread[t].pc = "idle"
    /\ calls < MaxThreadCalls
    /\ calls' = calls + 1
    /\ thread' = [thread EXCEPT ![t] =
           [pc |-> IF Missing(servers[BucketOf(is_wms)], url)
                   THEN "construct" ELSE "lookup",
            url |-> url, name |-> name, is_wms |-> is_wms, fetched |-> FALSE]]
    /\ UNCHANGED <<servers, constructions, lastCall, constructError, lookedUp>>
    /\ UNCHANGED indexVars
    /\ UNCHANGED scanVars

\* Lines 82-88 when OwsServer(...) raises
TConstructFail(t, err) ==
    LET c == thread[t]
    IN  /\ pc = "threads"
        /\ c.pc = "construct"
        /\ constructions' = Started(constructions, BucketOf(c.is_wms), c.url)
        /\ lastCall' = CallRecord(c.url, c.name, c.is_wms,
                                  ConstructionRaises(err, c.url, c.name), TRUE)
        /\ constructError' = err
        /\ lookedUp' = FALSE
        /\ thread' = [thread EXCEPT ![t] = ThreadIdle]
        /\ UNCHANGED <<servers, calls>>
        /\ UNCHANGED indexVars
        /\ UNCHANGED scanVars

\* Line 82 when OwsServer(...) returns: the new server is stored
TConstructStore(t, cat) ==
    LET c == thread[t]
        kind == BucketOf(c.is_wms)
    IN  /\ pc = "threads"
        /\ c.pc = "construct"
        /\ constructions' = Completed(Started(constructions, kind, c.url), kind, c.url)
        /\ servers' = [servers EXCEPT ![kind] = Store(@, c.url, OwsServer(cat, <<>>))]
        /\ thread' = [thread EXCEPT ![t].pc = "lookup", ![t].fetched = TRUE]
        /\ constructError' = NoExc
        /\ UNCHANGED <<calls, lastCall, lookedUp>>
        /\ UNCHANGED indexVars
        /\ UNCHANGED scanVars

\* Lines 89-92
TLookup(t) ==
    LET c == thread[t]
    IN  /\ pc = "threads"
        /\ c.pc = "lookup"
        /\ lastCall' = CallRecord(c.url, c.name, c.is_wms,
                                  LookupRaises(servers[BucketOf(c.is_wms)], c.url, c.name),
                                  c.fetched)
        /\ lookedUp' = TRUE
        /\ thread' = [thread EXCEPT ![t] = ThreadIdle]
        /\ UNCHANGED <<servers, constructions, calls, constructError>>
        /\ UNCHANGED indexVars
        /\ UNCHANGED scanVars

InitThreads ==
    /\ pc = "threads"
    /\ NoServer
    /\ ScanIdle
    /\ CacheInit

NextThreads ==
    \E t \in Threads :
        \/ \E url \in Urls, name \in AskedNames, is_wms \in BOOLEAN :
              TBegin(t, url, name, is_wms)
        \/ \E err \in ConstructErrors : TConstructFail(t, err)
        \/ \E cat \in Catalogs : TConstructStore(t, cat)
        \/ TLookup(t)

SpecThreads == InitThreads /\ [][NextThreads]_vars

(***************************************************************************)
(* One run of OwsChecker(serviceUrl), and the caller reading its result.   *)
(***************************************************************************)
Init ==
    /\ pc = "start"
    /\ NoServer
    /\ ScanIdle
    /\ CacheInit

Next ==
    \/ \E err \in ConstructErrors : ConnectFail(err)
    \/ /\ pc = "start"
       /\ \E names \in ListsUpTo(ScanNames, MaxRaw) :
             \E metadata \in MetadataOf(names) : Connect(names, metadata)
    \/ NextWorkspace
    \/ ScanLayer
    \/ \E md \in Pairs : Resolve(md)
    \/ Finish
    \/ GetReport
    \/ GetInconsistencies

Spec == Init /\ [][Next]_vars

(***************************************************************************)
(* Properties of the workspace index (SpecIndex).                          *)
(***************************************************************************)
HasColon(name) == \E i \in 1..Len(name) : name[i] = ":"

FirstColon(name) ==
    CHOOSE i \in 1..Len(name) :
        name[i] = ":" /\ \A j \in 1..(i - 1) : name[j] # ":"

BeforeColon(name) == SubSeq(name, 1, FirstColon(name) - 1)

AfterColon(name) == SubSeq(name, FirstColon(name) + 1, Len(name))

\* The places <<i, j>> of the index: layer j of the i-th workspace.
IndexPlaces(d) == UNION {{<<i, j>> : j \in 1..Len(d[i].layers)} : i \in 1..Len(d)}

PlacesOf(d, workspace, layer) ==
    {p \in IndexPlaces(d) :
        d[p[1]].workspace = workspace /\ d[p[1]].layers[p[2]] = layer}

NamesSplitInto(names, workspace, layer) ==
    {i \in 1..Len(names) :
        /\ HasColon(names[i])
        /\ BeforeColon(names[i]) = workspace
        /\ AfterColon(names[i]) = layer}

\* C2: once _populateLayers has run, every advertised name with a ':' is in
\* the index under the text before its first ':' as workspace and the text
\* after it as layer, as many times as it is advertised; every entry of the
\* index comes from such a name; no entry stands for a name without ':'; and
\* the index holds as many entries as there are advertised names with a ':'.
C2_IndexHoldsQualifiedNames ==
    pc = "server_ready" =>
        /\ \A i \in 1..Len(contents) :
              HasColon(contents[i]) =>
                  Cardinality(PlacesOf(layersByWorkspace,
                                       BeforeColon(contents[i]), AfterColon(contents[i])))
                  = Cardinality(NamesSplitInto(contents,
                                       BeforeColon(contents[i]), AfterColon(contents[i])))
        /\ \A p \in IndexPlaces(layersByWorkspace) :
              LET w == layersByWorkspace[p[1]].workspace
                  l == layersByWorkspace[p[1]].layers[p[2]]
              IN  /\ NamesSplitInto(contents, w, l) # {}
                  /\ \A i \in 1..Len(contents) :
                        ~HasColon(contents[i]) => FqName(w, l) # contents[i]
        /\ \A i, j \in 1..Len(layersByWorkspace) :
              layersByWorkspace[i].workspace = layersByWorkspace[j].workspace => i = j
        /\ Cardinality(IndexPlaces(layersByWorkspace))
              = Cardinality({i \in 1..Len(contents) : HasColon(contents[i])})

\* An index built from a name with two ':' and a name with none.
C2_Witness ==
    /\ pc = "server_ready"
    /\ \E i, j \in 1..Len(contents) :
          /\ HasColon(contents[i]) /\ HasColon(AfterColon(contents[i]))
          /\ ~HasColon(contents[j])
    /\ Len(layersByWorkspace) = 1

(***************************************************************************)
(* Properties of the endpoint cache used by one caller at a time           *)
(* (SpecCache).                                                            *)
(***************************************************************************)
Keys == Kinds \X Urls

\* C1 as stated: OwsServer(...) is called at most once per (url, kind),
\* whatever the calls end in.
C1_AtMostOneConstructionStarted ==
    \A k \in Keys : constructions[k[1]][k[2]].started <= 1

\* C1, amended: at most one OwsServer(...) call per (url, kind) returns a
\* server, and the bucket holds a server for the url exactly when one did.
C1_AtMostOneConstructionCompleted ==
    \A k \in Keys :
        LET c == constructions[k[1]][k[2]]
        IN  /\ c.completed <= 1
            /\ (c.completed = 1) <=> (k[2] \in DOMAIN servers[k[1]])

\* A url cached after a construction that raised, and asked for again since.
C1_Witness ==
    \E k \in Keys :
        /\ constructions[k[1]][k[2]] = [started |-> 2, completed |-> 1]
        /\ lastCall.op # "None" /\ lastCall.url = k[2]
        /\ ~lastCall.fetched

KindOf(call) == IF call.op = "checkWmsLayer" THEN "wms" ELSE "wfs"

\* C6: a call for a url that is cached, with a name the cached server does
\* not hold, raises LayerNotFound with that name, that url and no metadata
\* uuid; it calls no OwsServer(...) and leaves the cache as it is (so the
\* next such call meets the same server and ends the same way).
C6_CachedMissRaisesAndKeepsCache ==
    [][ (/\ calls' = calls + 1
         /\ lastCall'.url \in DOMAIN servers[KindOf(lastCall')]
         /\ ~InContents(servers[KindOf(lastCall')][lastCall'.url].contents,
                        lastCall'.name))
        => /\ lastCall'.raised =
                 [kind |-> "LayerNotFound", layer_name |-> lastCall'.name,
                  layer_url |-> lastCall'.url, md_uuid |-> None,
                  msg |-> "Layer not found on GS"]
           /\ ~lastCall'.fetched
           /\ servers' = servers
           /\ constructions' = constructions ]_vars

\* The second of two calls for a cached url that lacks the name.
C6_Witness ==
    /\ calls >= 3
    /\ lastCall.op = "checkWfsLayer"
    /\ ~lastCall.fetched
    /\ lastCall.raised.kind = "LayerNotFound"
    /\ lastCall.raised.md_uuid = None
    /\ constructions["wfs"][lastCall.url] = [started |-> 1, completed |-> 1]

\* C10: a call raises nothing exactly when, as it returns, the bucket of its
\* kind holds a server for its url and that server holds the name; it then
\* returns None (as every call that returns does).
C10_SuccessIsSilent ==
    lastCall.op # "None" =>
        LET found == /\ lastCall.url \in DOMAIN servers[KindOf(lastCall)]
                     /\ InContents(servers[KindOf(lastCall)][lastCall.url].contents,
                                   lastCall.name)
        IN  /\ found <=> (lastCall.raised = NoExc)
            /\ lastCall.returned = None

\* A checkWmsLayer call that fetched the server and found on it a layer
\* name without workspace.
C10_Witness ==
    /\ lastCall.op = "checkWmsLayer"
    /\ lastCall.raised = NoExc
    /\ lastCall.fetched
    /\ lastCall.url \in DOMAIN servers["wms"]
    /\ lastCall.name = <<"a">>

(***************************************************************************)
(* The endpoint cache shared by concurrent callers (SpecThreads).          *)
(***************************************************************************)
\* C9: under every interleaving of the callers, at most one server is
\* constructed and stored per (url, kind).
C9_OneServerPerUrlUnderConcurrency ==
    \A k \in Keys : constructions[k[1]][k[2]].completed <= 1

(***************************************************************************)
(* Properties of one run of OwsChecker (Spec).                             *)
(***************************************************************************)
EntriesOf(name) == {i \in 1..Len(inconsistencies) : inconsistencies[i].layerName = name}

ScansOf(name) == {i \in 1..Len(getMetadatasCalls) : getMetadatasCalls[i] = name}

ResolutionsOf(name) == {i \in 1..Len(resolverCalls) : resolverCalls[i].layer = name}

\* The references of an advertised layer, as distinct (format, url) pairs.
ReferencesOf(name) == {metadataUrls[name][i] : i \in 1..Len(metadataUrls[name])}

IsInvalid(md) == md.url = "invalid"

\* The fully qualified names of the index, in its order.
RECURSIVE FlatFrom(_, _)
FlatFrom(d, i) ==
    IF i > Len(d) THEN <<>>
    ELSE [j \in 1..Len(d[i].layers) |-> d[i].workspace \o <<":">> \o d[i].layers[j]]
         \o FlatFrom(d, i + 1)

IndexedNames == FlatFrom(layersByWorkspace, 1)

\* C3: when OwsServer(...) raises in OwsChecker.__init__, whatever it raises,
\* the caller gets one UnparseableCapabilities with the service url and the
\* message of that exception; no layer was scanned, no metadata resolved, no
\* checker is held and nothing can be read from one.
C3_ConnectFailureIsUnparseableCapabilities ==
    connectError # NoExc =>
        /\ raised = [kind |-> "UnparseableCapabilities", service_url |-> ServiceUrl,
                     msg |-> connectError.msg]
        /\ pc = "raised"
        /\ getMetadatasCalls = <<>>
        /\ resolverCalls = <<>>
        /\ inconsistencies = <<>>
        /\ ~checker
        /\ observed.op = "None"

\* OwsServer(...) was interrupted from the keyboard (a BaseException).
C3_Witness ==
    /\ connectError = [kind |-> "KeyboardInterrupt", msg |-> "m2"]
    /\ raised.kind = "UnparseableCapabilities"

\* C4: for a layer that declares no metadata, every entry recorded under its
\* name is a MetadataMissing with the fully qualified name, there is one such
\* entry per scan of the layer, and the resolver is never called for it.
C4_NoMetadataGivesOneMetadataMissing ==
    \A name \in DOMAIN metadataUrls :
        (HasColon(name) /\ ReferencesOf(name) = {}) =>
            /\ \A i \in EntriesOf(name) :
                  inconsistencies[i] = [kind |-> "MetadataMissing", layerName |-> name]
            /\ Cardinality(EntriesOf(name)) = Cardinality(ScansOf(name))
            /\ ResolutionsOf(name) = {}

\* A finished scan of a layer without metadata and of a layer with invalid
\* metadata.
C4_Witness ==
    /\ pc = "done"
    /\ \E name \in DOMAIN metadataUrls :
          /\ HasColon(name) /\ ReferencesOf(name) = {}
          /\ Cardinality(EntriesOf(name)) = 1
    /\ \E i \in 1..Len(inconsistencies) : inconsistencies[i].kind = "MetadataInvalid"
    /\ Len(inconsistencies) = 3

\* C5: every MetadataInvalid of the list carries the fully qualified name of
\* a scanned layer (never the unset one); a layer has as many of them as
\* resolutions of its references found the document invalid; and when the
\* scan is over that is, per scan of the layer, the number of its distinct
\* (format, url) pairs whose document is invalid, each pair having been
\* resolved once per scan.
C5_OneMetadataInvalidPerInvalidPair ==
    /\ \A i \in 1..Len(inconsistencies) :
          inconsistencies[i].kind = "MetadataInvalid" =>
              /\ inconsistencies[i].layerName # Unset
              /\ ScansOf(inconsistencies[i].layerName) # {}
    /\ \A name \in DOMAIN metadataUrls :
          (HasColon(name) /\ ReferencesOf(name) # {}) =>
              /\ \A i \in EntriesOf(name) : inconsistencies[i].kind = "MetadataInvalid"
              /\ Cardinality(EntriesOf(name))
                    = Cardinality({i \in ResolutionsOf(name) : IsInvalid(resolverCalls[i].md)})
              /\ pc = "done" =>
                    /\ Cardinality(EntriesOf(name))
                          = Cardinality(ScansOf(name))
                            * Cardinality({md \in ReferencesOf(name) : IsInvalid(md)})
                    /\ \A md \in ReferencesOf(name) :
                          Cardinality({i \in ResolutionsOf(name) : resolverCalls[i].md = md})
                          = Cardinality(ScansOf(name))

\* A finished scan of a layer that declares an invalid document twice and a
\* valid one, and of a layer that declares two invalid ones.
C5_Witness ==
    /\ pc = "done"
    /\ \E n1, n2 \in DOMAIN metadataUrls :
          /\ metadataUrls[n1] = <<PBad, POk, PBad>>
          /\ Cardinality(EntriesOf(n1)) = 1
          /\ metadataUrls[n2] = <<PBad, PBad2>>
          /\ Cardinality(EntriesOf(n2)) = 2

\* C7: a run ends in one of two ways. Either an exception reached the caller,
\* who then holds no checker and has read nothing; or __init__ returned,
\* every layer of the index was scanned in the index's order, and what
\* getInconsistencies hands out is the whole list. A resolution that fails
\* otherwise than by an invalid document ends the run as the first kind: it
\* is the last call made, and the list holds nothing for it (one entry per
\* scanned layer without metadata and one per invalid document, no more).
C7_RunEndsRaisedOrComplete ==
    /\ pc \in {"start", "scan", "resolve", "raised", "done"}
    /\ (raised # NoExc) <=> (pc = "raised")
    /\ checker <=> (pc = "done")
    /\ ~checker => observed.op = "None"
    /\ checker =>
          /\ getMetadatasCalls = IndexedNames
          /\ observed.op = "getInconsistencies" => observed.list = inconsistencies
    /\ \A i \in 1..Len(resolverCalls) :
          resolverCalls[i].md.url = "down" =>
              /\ i = Len(resolverCalls)
              /\ raised = [kind |-> "ConnectionError", msg |-> "m1"]
    /\ Len(inconsistencies)
          = Cardinality({i \in 1..Len(getMetadatasCalls) :
                            ReferencesOf(getMetadatasCalls[i]) = {}})
            + Cardinality({i \in 1..Len(resolverCalls) : IsInvalid(resolverCalls[i].md)})

\* A run that a failing resolution ended after two entries had been recorded.
C7_Witness ==
    /\ pc = "raised"
    /\ raised.kind = "ConnectionError"
    /\ Len(inconsistencies) = 2
    /\ ~checker

CountQualified(names) == Cardinality({i \in 1..Len(names) : HasColon(names[i])})

\* C8: what getReport reports is, for the layers, the number of advertised
\* names with a ':' (the sum of the lengths of the index's lists) and, for
\* the inconsistencies, the length of the list getInconsistencies returns;
\* and a getReport or getInconsistencies call changes neither the index nor
\* the list.
C8_ReportCountsLayersAndInconsistencies ==
    /\ [](observed.op = "getReport" =>
             /\ observed.totalLayers = CountQualified(contents)
             /\ observed.totalLayers = Len(IndexedNames)
             /\ observed.inconsistencyCount = Len(inconsistencies))
    /\ [][observed' # observed =>
             /\ layersByWorkspace' = layersByWorkspace
             /\ inconsistencies' = inconsistencies
             /\ contents' = contents]_vars

\* The report of a service that advertises two layers of one workspace and a
\* name without workspace.
C8_Witness ==
    /\ observed.op = "getReport"
    /\ contents = <<<<"a", ":">>, <<"a", ":", ":">>, <<"a">>>>
    /\ observed.totalLayers = 2
    /\ observed.inconsistencyCount = 3


\* C11: a call whose OwsServer(...) raises HTTPError, ServiceException or
\* AttributeError raises LayerNotFound with the name and the url of the call
\* and the message of the exception behind the tag of its class; getLayer is
\* not run; and both buckets are as they were before the call, the url still
\* absent from the bucket of the call's kind.
C11_ClassifiedConstructionFailure ==
    [][ (/\ calls' = calls + 1
         /\ constructError'.kind \in {"HTTPError", "ServiceException", "AttributeError"})
        => /\ lastCall'.raised.kind = "LayerNotFound"
           /\ lastCall'.raised.layer_name = lastCall'.name
           /\ lastCall'.raised.layer_url = lastCall'.url
           /\ lastCall'.raised.msg
                 = <<constructError'.kind, ": ", constructError'.msg>>
           /\ ~lookedUp'
           /\ servers' = servers
           /\ lastCall'.url \notin DOMAIN servers'[KindOf(lastCall')] ]_vars

\* A WFS call that failed with a ServiceException while the WMS bucket holds
\* a server for the same url.
C11_Witness ==
    /\ constructError = [kind |-> "ServiceException", msg |-> "m2"]
    /\ lastCall.op = "checkWfsLayer"
    /\ lastCall.raised.kind = "LayerNotFound"
    /\ lastCall.url \in DOMAIN servers["wms"]
    /\ lastCall.url \notin DOMAIN servers["wfs"]


\* The place in the raw list where the workspace of names[i] first occurs.
FirstOfWorkspace(names, i) ==
    CHOOSE k \in 1..i :
        /\ HasColon(names[k])
        /\ BeforeColon(names[k]) = BeforeColon(names[i])
        /\ \A j \in 1..(k - 1) :
              HasColon(names[j]) => BeforeColon(names[j]) # BeforeColon(names[i])

\* The discovery order: names[j] is scanned before names[i] when its
\* workspace occurs first earlier, or they share the workspace and j < i.
ScannedBefore(names, j, i) ==
    \/ FirstOfWorkspace(names, j) < FirstOfWorkspace(names, i)
    \/ FirstOfWorkspace(names, j) = FirstOfWorkspace(names, i) /\ j < i

Rank(names, i) ==
    1 + Cardinality({j \in 1..Len(names) :
                        HasColon(names[j]) /\ ScannedBefore(names, j, i)})

\* The number of entries one scan of the layer leaves in the list.
EntriesPerScan(name) ==
    IF ReferencesOf(name) = {} THEN 1
    ELSE Cardinality({md \in ReferencesOf(name) : IsInvalid(md)})

\* The layer names of the entries the scans k, k + 1, ... leave, in order.
RECURSIVE BlocksFrom(_, _)
BlocksFrom(scans, k) ==
    IF k > Len(scans) THEN <<>>
    ELSE [i \in 1..EntriesPerScan(scans[k]) |-> scans[k]] \o BlocksFrom(scans, k + 1)

LayerNamesOf(list) == [i \in 1..Len(list) |-> list[i].layerName]

IsPrefix(s, t) == Len(s) <= Len(t) /\ SubSeq(t, 1, Len(s)) = s

\* C12: the layers are scanned in discovery order (workspaces by first
\* occurrence in the raw list, layers of a workspace in raw order), and the
\* list holds the entries of each scan as one block, the blocks in the order
\* of the scans: every entry of an earlier scanned layer precedes every entry
\* of a later scanned one.
C12_ListInDiscoveryOrder ==
    /\ \A i \in 1..Len(contents) :
          (HasColon(contents[i]) /\ Rank(contents, i) <= Len(getMetadatasCalls)) =>
              getMetadatasCalls[Rank(contents, i)] = contents[i]
    /\ Len(getMetadatasCalls) <= CountQualified(contents)
    /\ IsPrefix(LayerNamesOf(inconsistencies), BlocksFrom(getMetadatasCalls, 1))
    /\ pc = "done" =>
          /\ Len(getMetadatasCalls) = CountQualified(contents)
          /\ LayerNamesOf(inconsistencies) = BlocksFrom(getMetadatasCalls, 1)

\* A finished scan of a raw list in which a second workspace stands between
\* two layers of the first: the entries of both layers of the first
\* workspace precede the entry of the second workspace.
C12_Witness ==
    /\ pc = "done"
    /\ contents = <<<<"a", ":">>, <<":", "a">>, <<"a", ":", ":">>>>
    /\ LayerNamesOf(inconsistencies)
          = <<<<"a", ":">>, <<"a", ":", ":">>, <<"a", ":", ":">>, <<":", "a">>>>


OtherKind(kind) == IF kind = "wms" THEN "wfs" ELSE "wms"

\* C13: a check*Layer call leaves the bucket of the other kind, and the
\* constructions counted for it, as they were; whether it constructs a
\* server depends on its own bucket alone (it does exactly when the url is
\* absent there, whatever the other bucket holds); and a call answered from
\* the cache is answered by the server of its own bucket.
C13_BucketsAreIndependent ==
    [][ calls' = calls + 1 =>
          LET kind == KindOf(lastCall')
              other == OtherKind(kind)
              url == lastCall'.url
          IN  /\ servers'[other] = servers[other]
              /\ constructions'[other] = constructions[other]
              /\ lastCall'.fetched <=> (url \notin DOMAIN servers[kind])
              /\ ~lastCall'.fetched =>
                    ((lastCall'.raised = NoExc)
                        <=> InContents(servers[kind][url].contents, lastCall'.name)) ]_vars

\* A WFS call that constructed a server for a url the WMS bucket already
\* held, the two servers having different capabilities.
C13_Witness ==
    /\ lastCall.op = "checkWfsLayer"
    /\ lastCall.fetched
    /\ lastCall.url \in DOMAIN servers["wms"]
    /\ lastCall.url \in DOMAIN servers["wfs"]
    /\ servers["wms"][lastCall.url] # servers["wfs"][lastCall.url]
    /\ constructions["wms"][lastCall.url].completed = 1
    /\ constructions["wfs"][lastCall.url].completed = 1


\* C14: a check*Layer call keeps every entry the buckets held before it, with
\* the same server (no OwsServer(...) returned for that url and kind during
\* the call), and the only entry it can add is the one for its own url in the
\* bucket of its own kind.
C14_CacheIsMonotonic ==
    [][ calls' = calls + 1 =>
          /\ \A k \in Keys :
                k[2] \in DOMAIN servers[k[1]] =>
                    /\ k[2] \in DOMAIN servers'[k[1]]
                    /\ servers'[k[1]][k[2]] = servers[k[1]][k[2]]
                    /\ constructions'[k[1]][k[2]].completed
                          = constructions[k[1]][k[2]].completed
          /\ \A k \in Keys :
                (k[2] \in DOMAIN servers'[k[1]] /\ k[2] \notin DOMAIN servers[k[1]]) =>
                    k = <<KindOf(lastCall'), lastCall'.url>> ]_vars

\* Three entries in the cache, two of them in one bucket, and a last call
\* that was answered by one of them.
C14_Witness ==
    /\ calls = 4
    /\ ~lastCall.fetched
    /\ Cardinality({k \in Keys : k[2] \in DOMAIN servers[k[1]]}) = 3
    /\ DOMAIN servers[KindOf(lastCall)] = Urls


\* The layer parts of the raw names i, i + 1, ... that belong to the
\* workspace, one per occurrence, in raw order.
RECURSIVE RawLayersFrom(_, _, _)
RawLayersFrom(names, workspace, i) ==
    IF i > Len(names) THEN <<>>
    ELSE (IF HasColon(names[i]) /\ BeforeColon(names[i]) = workspace
          THEN <<AfterColon(names[i])>> ELSE <<>>)
         \o RawLayersFrom(names, workspace, i + 1)

OccurrencesOf(names, name) == {i \in 1..Len(names) : names[i] = name}

\* C15: the list of each workspace of the index is the layer parts of its
\* raw names in raw order, one per occurrence; and when the scan is over a
\* name advertised k times has been scanned k times and has k times the
\* entries one scan of it leaves.
C15_OneEntryPerOccurrence ==
    /\ \A i \in 1..Len(layersByWorkspace) :
          layersByWorkspace[i].layers
             = RawLayersFrom(contents, layersByWorkspace[i].workspace, 1)
    /\ pc = "done" =>
          \A i \in 1..Len(contents) :
              HasColon(contents[i]) =>
                  LET k == Cardinality(OccurrencesOf(contents, contents[i]))
                  IN  /\ Cardinality(ScansOf(contents[i])) = k
                      /\ Cardinality(EntriesOf(contents[i]))
                            = k * EntriesPerScan(contents[i])

\* A finished scan of a raw list that advertises a layer with two invalid
\* documents twice, another layer of its workspace between them.
C15_Witness ==
    /\ pc = "done"
    /\ contents = <<<<"a", ":", ":">>, <<"a", ":">>, <<"a", ":", ":">>>>
    /\ layersByWorkspace = <<[workspace |-> <<"a">>,
                              layers |-> <<<<":">>, <<>>, <<":">>>>]>>
    /\ Cardinality(ScansOf(<<"a", ":", ":">>)) = 2
    /\ Cardinality(EntriesOf(<<"a", ":", ":">>)) = 4


\* C16: every step leaves the entries the list held where they were and as
\* they were, and adds at most one entry at the end; an entry is in the list
\* only with the name of the layer being scanned already on it (the name is
\* set on a MetadataInvalid before it is appended, never after).
C16_ListIsAppendOnly ==
    [][ /\ IsPrefix(inconsistencies, inconsistencies')
        /\ Len(inconsistencies') <= Len(inconsistencies) + 1
        /\ Len(inconsistencies') = Len(inconsistencies) + 1 =>
              LET e == inconsistencies'[Len(inconsistencies')]
              IN  /\ e.layerName # Unset
                  /\ e.layerName = fqLayerName'
                  /\ HasColon(e.layerName) ]_vars

\* A scan in progress that has recorded a MetadataInvalid after two other
\* entries.
C16_Witness ==
    /\ pc \in {"scan", "resolve"}
    /\ Len(inconsistencies) = 3
    /\ inconsistencies[1].kind = "MetadataMissing"
    /\ inconsistencies[3].kind = "MetadataInvalid"
    /\ inconsistencies[3].layerName = fqLayerName


\* C17: for every (workspace, layer) entry of the index, workspace + ':' +
\* layer is one of the advertised names; every name the checker passes to
\* getMetadatas is an advertised name; and no run ends with the KeyError of
\* a lookup of a name the service does not hold.
C17_QualifiedNameRoundTrip ==
    /\ \A p \in IndexPlaces(layersByWorkspace) :
          (layersByWorkspace[p[1]].workspace \o <<":">>
              \o layersByWorkspace[p[1]].layers[p[2]]) \in RangeOf(contents)
    /\ \A k \in 1..Len(getMetadatasCalls) : getMetadatasCalls[k] \in RangeOf(contents)
    /\ raised.kind # "KeyError"

\* A finished scan of a service that advertises a name with two ':', a name
\* with an empty workspace and a name with an empty layer part.
C17_Witness ==
    /\ pc = "done"
    /\ RangeOf(contents) = {<<"a", ":", ":">>, <<":", "a">>, <<"a", ":">>}
    /\ RangeOf(getMetadatasCalls) = RangeOf(contents)
    /\ \E i \in 1..Len(layersByWorkspace) :
          /\ layersByWorkspace[i].workspace = <<"a">>
          /\ RangeOf(layersByWorkspace[i].layers) = {<<":">>, <<>>}


\* C18: a check*Layer call raises LayerNotFound exactly when OwsServer(...)
\* raised HTTPError, ServiceException or AttributeError, or when getLayer ran
\* and the server does not hold the name; when OwsServer(...) raises anything
\* else, the caller gets that very exception, getLayer is not run and the
\* cache is as it was before the call.
C18_OnlyClassifiedFailuresAreConverted ==
    [][ calls' = calls + 1 =>
          LET kind == KindOf(lastCall')
              url == lastCall'.url
              classified == constructError'.kind
                               \in {"HTTPError", "ServiceException", "AttributeError"}
              missingKey == /\ lookedUp'
                            /\ ~InContents(servers'[kind][url].contents, lastCall'.name)
          IN  /\ (lastCall'.raised.kind = "LayerNotFound") <=> (classified \/ missingKey)
              /\ (constructError' # NoExc /\ ~classified) =>
                    /\ lastCall'.raised = constructError'
                    /\ ~lookedUp'
                    /\ servers' = servers
                    /\ url \notin DOMAIN servers'[kind]
              /\ (constructError' = NoExc /\ ~missingKey) => lastCall'.raised = NoExc ]_vars

\* A call whose OwsServer(...) raised a KeyError, made when the cache already
\* held a server: the KeyError reaches the caller as it is.
C18_Witness ==
    /\ constructError = [kind |-> "KeyError", msg |-> "m1"]
    /\ lastCall.raised = constructError
    /\ ~lookedUp
    /\ \E k \in Keys : k[2] \in DOMAIN servers[k[1]]


\* C19: the list never holds anything but MetadataMissing and MetadataInvalid
\* entries (no LayerNotFound, no UnparseableCapabilities); and once the scan
\* is over, every entry carries the fully qualified name of a layer of the
\* index, a layer without metadata has one entry per scan, and a layer with
\* metadata has, per scan, at most as many entries as it has distinct
\* (format, url) pairs.
C19_ListHoldsMetadataEntriesOfIndexedLayers ==
    /\ \A i \in 1..Len(inconsistencies) :
          /\ inconsistencies[i].kind \in {"MetadataMissing", "MetadataInvalid"}
          /\ inconsistencies[i].kind \notin {"LayerNotFound", "UnparseableCapabilities"}
    /\ pc = "done" =>
          /\ \A i \in 1..Len(inconsistencies) :
                inconsistencies[i].layerName \in RangeOf(IndexedNames)
          /\ \A name \in RangeOf(IndexedNames) :
                IF ReferencesOf(name) = {}
                THEN /\ Cardinality(EntriesOf(name)) = Cardinality(ScansOf(name))
                     /\ \A i \in EntriesOf(name) :
                           inconsistencies[i].kind = "MetadataMissing"
                ELSE /\ Cardinality(EntriesOf(name))
                           <= Cardinality(ScansOf(name)) * Cardinality(ReferencesOf(name))
                     /\ \A i \in EntriesOf(name) :
                           inconsistencies[i].kind = "MetadataInvalid"

\* A finished scan of three layers: one without metadata, one with fewer
\* entries than pairs, one with as many entries as pairs.
C19_Witness ==
    /\ pc = "done"
    /\ \E n0, n1, n2 \in RangeOf(IndexedNames) :
          /\ ReferencesOf(n0) = {} /\ Cardinality(EntriesOf(n0)) = 1
          /\ Cardinality(ReferencesOf(n1)) = 2 /\ Cardinality(EntriesOf(n1)) = 1
          /\ Cardinality(ReferencesOf(n2)) = 2 /\ Cardinality(EntriesOf(n2)) = 2

====
